---- MODULE Spec2Model ----
(***************************************************************************)
(* The bounded-concurrency download pipeline of EromeDownloader:           *)
(* collect_links / run_in_parallel (the spec's runGroup), the monitor loop *)
(* manage_running_tasks, the worker body download_album / handle_response  *)
(* (save_file_with_progress), the rich progress tables and the             *)
(* ThreadPoolExecutor the code runs them on.                               *)
(*                                                                         *)
(* One main thread walks the link list; every link becomes one future of   *)
(* the pool; worker threads take futures off the pool's FIFO queue.  Each  *)
(* step below is one atomic section of the Python code: a call into the    *)
(* (lock-protected) progress table, a state change of a future, or a       *)
(* thread-local statement.                                                 *)
(***************************************************************************)
EXTENDS Integers, Sequences, FiniteSets, TLC

\* The most links of one album the model explores.
NumLinks == 3
\* The most chunks one response body yields.
MaxChunks == 1
\* The pool's max_workers as helpers/config.py sets it (the older copy of the
\* constant in album_downloader.py is 5).
MAX_WORKERS == 2

Links == 1..NumLinks
\* The content-length values a response can declare, in chunk units: absent
\* (-1, the code's default), zero, or a positive size.
DeclaredSizes == (-1)..MaxChunks

VARIABLES
    num_files,        \* len(download_links)
    pc,               \* position of the main thread in collect_links
    cur,              \* number of links the for loop has taken (indx + 1)
    futures,          \* the dict futures: the futures still in it, oldest first
    keys,             \* list(futures.keys()) still to be visited by the for loop
    popped,           \* task popped by the monitor, its update still to come (0: none)
    fstate,           \* state of each future: NONE, PENDING, RUNNING, FINISHED
    outcome,          \* how each task's download ended: none, ok, not_ok, raised
    work_queue,       \* the executor's FIFO queue of work items
    wpc,              \* position of the worker running each task
    file_size,        \* handle_response: file_size of each task
    total_downloaded, \* handle_response: total_downloaded of each task
    job_progress,     \* the item progress table: one row (slot) per task
    overall_progress, \* the overall row: <<created, total, completed>> as a record
    stdout,           \* per task, the failure lines print() wrote
    advances,         \* per task, the calls of overall_progress.advance made for it
    attempts,         \* fetch_page: the outcome of every GET issued so far, in order
    delays,           \* fetch_page: the delays slept so far, in tenths of a second
    dir_created,      \* the album's download directory exists
    probe,            \* one call of get_chunk_size on a pair of file sizes
    transfer,         \* one call of download_item: the response, the file, the reports
    batch,            \* one call of process_urls: the albums of the list and their links
    buffered,         \* one ProgressConfig: its overall_buffer and what was appended to it
    parallel,         \* one run_in_parallel call over download_item: its tasks and the directory
    run,              \* one run of main: its position and the two list files
    album             \* one album of the sequential downloader: its links, the directory, the requests

vars == <<num_files, pc, cur, futures, keys, popped, fstate, outcome, work_queue, wpc,
          file_size, total_downloaded, job_progress, overall_progress, stdout,
          advances, attempts, delays, dir_created, probe, transfer, batch,
          buffered, parallel, run, album>>

albumVars == <<attempts, delays, dir_created>>
unitVars == <<probe, transfer, batch, buffered, parallel, run, album>>
mainVars == <<pc, cur, futures, keys, popped>>
workerVars == <<wpc, file_size, total_downloaded>>

Abs(x) == IF x < 0 THEN -x ELSE x

RECURSIVE Gcd(_, _)
Gcd(a, b) == IF b = 0 THEN a ELSE Gcd(b, a % b)

\* A percentage is kept as the exact value of the division the code computes, a
\* fraction in lowest terms with a positive denominator (d is never 0 here).
Pct(n, d) ==
    LET g == Gcd(Abs(n), Abs(d))
        sgn == IF d < 0 THEN -1 ELSE 1
    IN <<sgn * (n \div g), sgn * (d \div g)>>
IsHundred(p) == p = <<100, 1>>

\* A row as job_progress.add_task(..., total=100, visible=False) creates it.
NewRow == [alloc |-> TRUE, visible |-> FALSE, completed |-> <<0, 1>>]
NoRow == [alloc |-> FALSE, visible |-> FALSE, completed |-> <<0, 1>>]

\* No call of get_chunk_size is being looked at.
NoProbe == [at |-> "none", a |-> 0, b |-> 0, chunk_a |-> 0, chunk_b |-> 0]

\* No call of download_item is being looked at.
NoTransfer ==
    [at |-> "none", file_size |-> 0, body |-> <<>>, next |-> 1, handle |-> "none",
     exists |-> FALSE, file |-> <<>>, total_downloaded |-> 0, reports |-> <<>>,
     error |-> "none"]

\* No call of process_urls is being looked at.
NoBatch == [at |-> "none", sizes |-> <<>>, g |-> 1, l |-> 1, outcomes |-> <<>>,
            cause |-> "none"]

\* A ProgressConfig as its constructor leaves it: overall_buffer is an empty deque.
NoBuffer == [overall_buffer |-> <<>>, appended |-> <<>>]
NoParallel == [at |-> "none", names |-> <<>>, next |-> 1, waiting |-> FALSE,
               pos |-> <<>>, status |-> <<>>, offset |-> <<>>, dir |-> <<>>]
NoRun == [at |-> "none", profile |-> FALSE, DEFAULT_FILE |-> <<>>, DUMP_FILE |-> <<>>,
          before |-> <<>>, urls |-> <<>>]
NoAlbum == [at |-> "none", names |-> <<>>, dir |-> {}, before |-> {},
            existing_files |-> {}, l |-> 1, requests |-> <<>>, writes |-> <<>>]

\* A row is Done when it is hidden at 100%.
RowDone(r) == r.alloc /\ ~r.visible /\ IsHundred(r.completed)

\* The state in which the pool is entered: the page has been fetched, the links
\* extracted and the download directory created.
Init ==
    /\ num_files \in 0..NumLinks
    /\ pc = "enter"
    /\ cur = 0
    /\ futures = <<>>
    /\ keys = <<>>
    /\ popped = 0
    /\ fstate = [i \in Links |-> "NONE"]
    /\ outcome = [i \in Links |-> "none"]
    /\ work_queue = <<>>
    /\ wpc = [i \in Links |-> "idle"]
    /\ file_size = [i \in Links |-> 0]
    /\ total_downloaded = [i \in Links |-> 0]
    /\ job_progress = [i \in Links |-> NoRow]
    /\ overall_progress = [created |-> FALSE, total |-> 0, completed |-> 0]
    /\ stdout = [i \in Links |-> 0]
    /\ advances = [i \in Links |-> 0]
    /\ attempts = <<>>
    /\ delays = <<>>
    /\ dir_created = TRUE
    /\ probe = NoProbe
    /\ transfer = NoTransfer
    /\ batch = NoBatch
    /\ buffered = NoBuffer
    /\ parallel = NoParallel
    /\ run = NoRun
    /\ album = NoAlbum

----
\* As Updated, had completed been added to the row's value (update(task, advance=c)).
UpdatedByAdvance(rows, i, setCompleted, c, setVisible, v) ==
    [rows EXCEPT
       ![i].completed = IF setCompleted THEN Pct(@[1] + c[1] * @[2], @[2] * c[2]) ELSE @,
       ![i].visible = IF setVisible THEN v ELSE @]

\* The table rows after update(task, completed=..., visible=...) on row i: the fields
\* given are set, the others and the other rows are kept.
Updated(rows, i, setCompleted, c, setVisible, v) ==
    [rows EXCEPT
       ![i].completed = IF setCompleted THEN c ELSE @,
       ![i].visible = IF setVisible THEN v ELSE @]

\* job_progress.update(task, completed=..., visible=...): a partial update of one
\* row, under the table's lock.
RowUpdate(i, setCompleted, c, setVisible, v) ==
    job_progress' = Updated(job_progress, i, setCompleted, c, setVisible, v)

----
(***************************************************************************)
(* The main thread: collect_links (run_in_parallel).                       *)
(***************************************************************************)

\* with ThreadPoolExecutor(...) as executor: overall_progress.add_task(total=num_files)
EnterPool ==
    /\ pc = "enter"
    /\ overall_progress' = [created |-> TRUE, total |-> num_files, completed |-> 0]
    /\ pc' = "for"
    /\ UNCHANGED <<unitVars, albumVars, num_files, cur, futures, keys, popped, fstate, outcome, work_queue,
                   workerVars, job_progress, stdout, advances>>

\* As ForNext, had the loop walked the link list from its end.
ForNextReversed ==
    /\ pc = "for"
    /\ IF cur < num_files
       THEN /\ cur' = cur + 1
            /\ job_progress' = [job_progress EXCEPT ![num_files - cur] = NewRow]
            /\ fstate' = [fstate EXCEPT ![num_files - cur] = "PENDING"]
            /\ work_queue' = Append(work_queue, num_files - cur)
            /\ futures' = Append(futures, num_files - cur)
            /\ pc' = "mon_while"
       ELSE /\ pc' = "shutdown"
            /\ UNCHANGED <<cur, job_progress, fstate, work_queue, futures>>
    /\ UNCHANGED <<unitVars, albumVars, num_files, keys, popped, outcome, workerVars, overall_progress,
                   stdout, advances>>

\* As ForNext, had the loop body run once before the list is tested (a do-while loop).
ForNextAtLeastOnce ==
    /\ pc = "for"
    /\ IF cur < num_files \/ cur = 0
       THEN /\ cur' = cur + 1
            /\ job_progress' = [job_progress EXCEPT ![cur + 1] = NewRow]
            /\ fstate' = [fstate EXCEPT ![cur + 1] = "PENDING"]
            /\ work_queue' = Append(work_queue, cur + 1)
            /\ futures' = Append(futures, cur + 1)
            /\ pc' = "mon_while"
       ELSE /\ pc' = "shutdown"
            /\ UNCHANGED <<cur, job_progress, fstate, work_queue, futures>>
    /\ UNCHANGED <<unitVars, albumVars, num_files, keys, popped, outcome, workerVars, overall_progress,
                   stdout, advances>>

\* One turn of the for loop up to the call of manage_running_tasks:
\*   task = job_progress.add_task(..., total=100, visible=False)
\*   future = executor.submit(download_album, ...); futures[future] = task
\* When the list is exhausted the with block is left.
ForNext ==
    /\ pc = "for"
    /\ IF cur < num_files
       THEN /\ cur' = cur + 1
            /\ job_progress' = [job_progress EXCEPT ![cur + 1] = NewRow]
            /\ fstate' = [fstate EXCEPT ![cur + 1] = "PENDING"]
            /\ work_queue' = Append(work_queue, cur + 1)
            /\ futures' = Append(futures, cur + 1)
            /\ pc' = "mon_while"
       ELSE /\ pc' = "shutdown"
            /\ UNCHANGED <<cur, job_progress, fstate, work_queue, futures>>
    /\ UNCHANGED <<unitVars, albumVars, num_files, keys, popped, outcome, workerVars, overall_progress,
                   stdout, advances>>

\* manage_running_tasks: while futures: for future in list(futures.keys())
MonitorWhile ==
    /\ pc = "mon_while"
    /\ IF futures # <<>>
       THEN /\ keys' = futures
            /\ pc' = "mon_for"
       ELSE /\ pc' = "for"
            /\ UNCHANGED keys
    /\ UNCHANGED <<unitVars, albumVars, num_files, cur, futures, popped, fstate, outcome, work_queue,
                   workerVars, job_progress, overall_progress, stdout, advances>>

\* The sequence s without its element x.
Without(s, x) == SelectSeq(s, LAMBDA y: y # x)

\* As Running, had the monitor taken a future that is merely submitted for running.
RunningOrSubmitted(f) == fstate[f] # "NONE"

\* future.running(): the future is being executed right now.
Running(f) == fstate[f] = "RUNNING"

\* Where the for loop of manage_running_tasks goes after a key: to the next key, or
\* back to the while test when the list is exhausted.
AfterKey(rest) == IF rest = <<>> THEN "mon_while" ELSE "mon_for"

\* if future.running(): task = futures.pop(future)
MonitorPoll ==
    /\ pc = "mon_for"
    /\ keys # <<>>
    /\ keys' = Tail(keys)
    /\ IF Running(Head(keys))
       THEN /\ futures' = Without(futures, Head(keys))
            /\ popped' = Head(keys)
            /\ pc' = "mon_update"
       ELSE /\ pc' = AfterKey(Tail(keys))
            /\ UNCHANGED <<futures, popped>>
    /\ UNCHANGED <<unitVars, albumVars, num_files, cur, fstate, outcome, work_queue, workerVars, job_progress,
                   overall_progress, stdout, advances>>

\* job_progress.update(task, visible=True)
MonitorUpdate ==
    /\ pc = "mon_update"
    /\ RowUpdate(popped, FALSE, <<0, 1>>, TRUE, TRUE)
    /\ popped' = 0
    /\ pc' = AfterKey(keys)
    /\ UNCHANGED <<unitVars, albumVars, num_files, cur, futures, keys, fstate, outcome, work_queue, workerVars,
                   overall_progress, stdout, advances>>

\* Every work item handed to the pool has been run to its end.
AllFinished == \A i \in Links: fstate[i] \in {"NONE", "FINISHED"}

\* As ShutdownWait, had the pool been shut down with wait=False.
ShutdownNoWait ==
    /\ pc = "shutdown"
    /\ pc' = "returned"
    /\ UNCHANGED <<unitVars, albumVars, num_files, cur, futures, keys, popped, fstate, outcome, work_queue,
                   workerVars, job_progress, overall_progress, stdout, advances>>

\* Leaving the with block: executor.shutdown(wait=True) joins the workers.
ShutdownWait ==
    /\ pc = "shutdown"
    /\ AllFinished
    /\ pc' = "returned"
    /\ UNCHANGED <<unitVars, albumVars, num_files, cur, futures, keys, popped, fstate, outcome, work_queue,
                   workerVars, job_progress, overall_progress, stdout, advances>>

----
(***************************************************************************)
(* The pool's worker threads: ThreadPoolExecutor runs download_album for   *)
(* one work item at a time per thread.                                     *)
(***************************************************************************)

\* The tasks a worker thread is occupied with.
Busy == {i \in Links: wpc[i] \notin {"idle", "done"}}

\* As WorkerFree, had the pool started a thread for every work item.
WorkerFreeUnbounded == TRUE

\* A thread of the pool is free to take a work item: max_workers=MAX_WORKERS.
WorkerFree == Cardinality(Busy) < MAX_WORKERS

\* A free worker thread takes the oldest work item off the queue and runs it:
\* future.set_running_or_notify_cancel(), then download_album(...).
Start(i) ==
    /\ work_queue # <<>>
    /\ Head(work_queue) = i
    /\ WorkerFree
    /\ work_queue' = Tail(work_queue)
    /\ fstate' = [fstate EXCEPT ![i] = "RUNNING"]
    /\ wpc' = [wpc EXCEPT ![i] = "request"]
    /\ UNCHANGED <<unitVars, albumVars, num_files, mainVars, outcome, file_size, total_downloaded,
                   job_progress, overall_progress, stdout, advances>>

\* As SetResult, had an exception of one task cancelled the futures still pending.
SetResultCancelSiblings(i, how) ==
    /\ fstate' = [j \in Links |->
                    IF j = i \/ (how = "raised" /\ fstate[j] = "PENDING")
                    THEN "FINISHED" ELSE fstate[j]]
    /\ outcome' = [outcome EXCEPT ![i] = how]
    /\ wpc' = [wpc EXCEPT ![i] = "done"]
    /\ file_size' = [file_size EXCEPT ![i] = 0]
    /\ total_downloaded' = [total_downloaded EXCEPT ![i] = 0]

\* As SetResult, had a download that raised been started again.
SetResultRetry(i, how) ==
    /\ fstate' = [fstate EXCEPT ![i] = IF how = "raised" THEN @ ELSE "FINISHED"]
    /\ outcome' = [outcome EXCEPT ![i] = IF how = "raised" THEN @ ELSE how]
    /\ wpc' = [wpc EXCEPT ![i] = IF how = "raised" THEN "request" ELSE "done"]
    /\ file_size' = [file_size EXCEPT ![i] = 0]
    /\ total_downloaded' = [total_downloaded EXCEPT ![i] = 0]

\* download_album returned or raised: the work item stores the result or the
\* exception in the future (set_result / set_exception), the thread is free and the
\* locals of the call are gone.  Nothing reads the future's result afterwards.
\* how is "ok" (handle_response ran to its end), "not_ok" (the response status was
\* unsuccessful) or "raised" (an exception left download_album).
SetResult(i, how) ==
    /\ fstate' = [fstate EXCEPT ![i] = "FINISHED"]
    /\ outcome' = [outcome EXCEPT ![i] = how]
    /\ wpc' = [wpc EXCEPT ![i] = "done"]
    /\ file_size' = [file_size EXCEPT ![i] = 0]
    /\ total_downloaded' = [total_downloaded EXCEPT ![i] = 0]

\* download_album up to the streaming loop of handle_response:
\* configure_session_request(...) raises (network error); or the response is not ok
\* and handle_response prints the failure line and returns; or the response is ok,
\* declares a content length (-1 when the header is absent) and the file is opened.
Request(i) ==
    /\ wpc[i] = "request"
    /\ \/ /\ SetResult(i, "raised")
          /\ UNCHANGED stdout
       \/ /\ stdout' = [stdout EXCEPT ![i] = @ + 1]
          /\ SetResult(i, "not_ok")
       \/ \E size \in DeclaredSizes:
            /\ file_size' = [file_size EXCEPT ![i] = size]
            /\ total_downloaded' = [total_downloaded EXCEPT ![i] = 0]
            /\ wpc' = [wpc EXCEPT ![i] = "stream"]
            /\ UNCHANGED <<stdout, fstate, outcome>>
    /\ UNCHANGED <<unitVars, albumVars, num_files, mainVars, work_queue, job_progress, overall_progress,
                   advances>>

\* One chunk of iter_content: file.write(chunk); total_downloaded += len(chunk);
\* progress_percentage = (total_downloaded / file_size) * 100, a ZeroDivisionError
\* that ends the task when file_size is 0;
\* job_progress.update(task, completed=progress_percentage)
Chunk(i) ==
    /\ wpc[i] = "stream"
    /\ total_downloaded[i] < MaxChunks
    /\ IF file_size[i] = 0
       THEN /\ SetResult(i, "raised")
            /\ UNCHANGED job_progress
       ELSE /\ total_downloaded' = [total_downloaded EXCEPT ![i] = @ + 1]
            /\ RowUpdate(i, TRUE, Pct((total_downloaded[i] + 1) * 100, file_size[i]),
                         FALSE, FALSE)
            /\ UNCHANGED <<wpc, fstate, outcome, file_size>>
    /\ UNCHANGED <<unitVars, albumVars, num_files, mainVars, work_queue, overall_progress, stdout, advances>>

\* The transfer fails: open() raises, the stream breaks (iter_content raises) or the
\* write fails.  The with block closes the file and the exception leaves
\* handle_response and download_album.
TransferError(i) ==
    /\ wpc[i] = "stream"
    /\ SetResult(i, "raised")
    /\ UNCHANGED <<unitVars, albumVars, num_files, mainVars, work_queue, job_progress, overall_progress,
                   stdout, advances>>

\* iter_content is exhausted, the with block closes the file:
\* job_progress.update(task, completed=100, visible=False)
FinalUpdate(i) ==
    /\ wpc[i] = "stream"
    /\ RowUpdate(i, TRUE, <<100, 1>>, TRUE, FALSE)
    /\ wpc' = [wpc EXCEPT ![i] = "advance"]
    /\ UNCHANGED <<unitVars, albumVars, num_files, mainVars, fstate, outcome, work_queue, file_size,
                   total_downloaded, overall_progress, stdout, advances>>

\* overall_progress.advance(overall_task), the last statement of handle_response:
\* download_album returns.
Advance(i) ==
    /\ wpc[i] = "advance"
    /\ overall_progress' = [overall_progress EXCEPT !.completed = @ + 1]
    /\ advances' = [advances EXCEPT ![i] = @ + 1]
    /\ SetResult(i, "ok")
    /\ UNCHANGED <<unitVars, albumVars, num_files, mainVars, work_queue, job_progress, stdout>>

----
Main ==
    \/ EnterPool
    \/ ForNext
    \/ MonitorWhile
    \/ MonitorPoll
    \/ MonitorUpdate
    \/ ShutdownWait

Worker(i) ==
    \/ Start(i)
    \/ Request(i)
    \/ Chunk(i)
    \/ TransferError(i)
    \/ FinalUpdate(i)
    \/ Advance(i)

Next == Main \/ \E i \in Links: Worker(i)

Spec == Init /\ [][Next]_vars

\* The threads are scheduled fairly: the main thread and every worker thread keep
\* taking steps while they can.
FairSpec == Spec /\ WF_vars(Main) /\ \A i \in Links: WF_vars(Worker(i))

----
(***************************************************************************)
(* An external interrupt: KeyboardInterrupt is raised in the main thread,  *)
(* which is inside the with ThreadPoolExecutor block of run_in_parallel.   *)
(* At most one interrupt arrives.                                          *)
(***************************************************************************)

\* The interrupt arrives while the main thread is in the for loop or in
\* manage_running_tasks: the exception leaves the loops (their locals are not used
\* again) and the with block's exit, executor.shutdown(wait=True), begins.
Interrupt ==
    /\ pc \in {"for", "mon_while", "mon_for", "mon_update"}
    /\ pc' = "interrupted"
    /\ futures' = <<>>
    /\ keys' = <<>>
    /\ popped' = 0
    /\ UNCHANGED <<unitVars, albumVars, num_files, cur, fstate, outcome, work_queue, workerVars,
                   job_progress, overall_progress, stdout, advances>>

\* The interrupt arrives while the main thread, having left the loops normally, is
\* joining the workers in shutdown(wait=True): the join is abandoned and the
\* exception leaves run_in_parallel; the worker threads keep running.
InterruptJoin ==
    /\ pc = "shutdown"
    /\ pc' = "raised"
    /\ UNCHANGED <<unitVars, albumVars, num_files, cur, futures, keys, popped, fstate, outcome, work_queue,
                   workerVars, job_progress, overall_progress, stdout, advances>>

\* As InterruptedExit, had the exit of the with block not joined the workers.
InterruptedExitNoWait ==
    /\ pc = "interrupted"
    /\ pc' = "raised"
    /\ UNCHANGED <<unitVars, albumVars, num_files, cur, futures, keys, popped, fstate, outcome, work_queue,
                   workerVars, job_progress, overall_progress, stdout, advances>>

\* The with block's exit after an interrupt in the loops: shutdown(wait=True) lets
\* the workers drain the queue and joins them, then the exception leaves
\* run_in_parallel.
InterruptedExit ==
    /\ pc = "interrupted"
    /\ AllFinished
    /\ pc' = "raised"
    /\ UNCHANGED <<unitVars, albumVars, num_files, cur, futures, keys, popped, fstate, outcome, work_queue,
                   workerVars, job_progress, overall_progress, stdout, advances>>

InterruptNext == Next \/ Interrupt \/ InterruptJoin \/ InterruptedExit

\* The pipeline with an interrupt that may arrive at any moment.
InterruptSpec == Init /\ [][InterruptNext]_vars

----
(***************************************************************************)
(* The group operation download_album of downloader.py: cookies, the page  *)
(* fetch fetch_page with its retry loop, the download directory, and then  *)
(* the pipeline above.  It runs on the main thread before the pool exists. *)
(***************************************************************************)

\* fetch_page(url, cookies=None, timeout=10, retries=4): the default, which
\* download_album uses.
retries == 4

\* What one session.get can produce: a response whose status passes raise_for_status,
\* a response with status 404 or 410, a response with another error status (for which
\* raise_for_status raises HTTPError, a RequestException), or a RequestException
\* raised by the request itself.  AcceptedWithoutRaise is Accepted had
\* raise_for_status not been called.
AcceptedWithoutRaise == {"200", "500"}
Accepted == {"200"}
Gone == {"404", "410"}
Failing == {"403", "429", "500", "503", "exc"}

\* random.uniform(1, 2), in tenths of a second.
Jitters == {10, 15, 20}

\* The variables of the pipeline, which the steps before it leave alone.
pipelineVars == <<num_files, cur, futures, keys, popped, fstate, outcome, work_queue,
                  wpc, file_size, total_downloaded, job_progress, overall_progress,
                  stdout, advances>>

\* download_album is called for one album page; nothing is fetched or created yet.
AlbumInit ==
    /\ num_files \in 0..NumLinks
    /\ pc = "cookies"
    /\ cur = 0
    /\ futures = <<>>
    /\ keys = <<>>
    /\ popped = 0
    /\ fstate = [i \in Links |-> "NONE"]
    /\ outcome = [i \in Links |-> "none"]
    /\ work_queue = <<>>
    /\ wpc = [i \in Links |-> "idle"]
    /\ file_size = [i \in Links |-> 0]
    /\ total_downloaded = [i \in Links |-> 0]
    /\ job_progress = [i \in Links |-> NoRow]
    /\ overall_progress = [created |-> FALSE, total |-> 0, completed |-> 0]
    /\ stdout = [i \in Links |-> 0]
    /\ advances = [i \in Links |-> 0]
    /\ attempts = <<>>
    /\ delays = <<>>
    /\ dir_created = FALSE
    /\ probe = NoProbe
    /\ transfer = NoTransfer
    /\ batch = NoBatch
    /\ buffered = NoBuffer
    /\ parallel = NoParallel
    /\ run = NoRun
    /\ album = NoAlbum

\* cookies = get_cookies_header(): one GET of the host page outside any try block;
\* an exception of it leaves download_album uncaught.
GetCookies ==
    /\ pc = "cookies"
    /\ pc' \in {"fetch", "error"}
    /\ UNCHANGED <<albumVars, pipelineVars, unitVars>>

\* The attempt that just failed was the last one never holds: the loop sleeps after
\* every failure.
LastAttemptNever(attempt) == FALSE

\* if attempt == retries - 1
LastAttempt(attempt) == attempt = retries - 1

\* The delay without the + 1 in the exponent.
BackoffDelayFromZero(attempt, j) == 10 * 2^attempt + j

\* delay = 2 ** (attempt + 1) + random.uniform(1, 2), in tenths of a second.
BackoffDelay(attempt, j) == 10 * 2^(attempt + 1) + j

\* Exhausted retries fall out of the loop to the trailing return None.
OnExhaustedReturnNone == "none"

\* sys.exit(1) after the last attempt failed.
OnExhausted == "exit"

\* An attempt of fetch_page gets a response that passes raise_for_status: the parsed
\* page is returned.
FetchAccept ==
    /\ pc = "fetch"
    /\ Len(attempts) < retries
    /\ \E r \in Accepted: attempts' = Append(attempts, r)
    /\ pc' = "soup"
    /\ UNCHANGED <<delays, dir_created, pipelineVars, unitVars>>

\* A 404 or 410 answer handled like a failed request: logged, slept on and retried.
FetchGoneRetried ==
    /\ pc = "fetch"
    /\ Len(attempts) < retries
    /\ \E r \in Gone: attempts' = Append(attempts, r)
    /\ IF LastAttempt(Len(attempts))
       THEN pc' = OnExhausted /\ delays' = delays
       ELSE /\ \E j \in Jitters:
                  delays' = Append(delays, BackoffDelay(Len(attempts), j))
            /\ pc' = "fetch"
    /\ UNCHANGED <<dir_created, pipelineVars, unitVars>>

\* An attempt gets a response with status 404 or 410: a warning is logged and
\* fetch_page returns None.
FetchGone ==
    /\ pc = "fetch"
    /\ Len(attempts) < retries
    /\ \E r \in Gone: attempts' = Append(attempts, r)
    /\ pc' = "none"
    /\ UNCHANGED <<delays, dir_created, pipelineVars, unitVars>>

\* An attempt raises a RequestException (from the request, or from raise_for_status):
\* the except clause logs it, exits the process after the last attempt, and otherwise
\* sleeps the backoff delay and goes round the loop.
FetchFail ==
    /\ pc = "fetch"
    /\ Len(attempts) < retries
    /\ \E r \in Failing: attempts' = Append(attempts, r)
    /\ IF LastAttempt(Len(attempts))
       THEN pc' = OnExhausted /\ delays' = delays
       ELSE /\ \E j \in Jitters:
                  delays' = Append(delays, BackoffDelay(Len(attempts), j))
            /\ pc' = "fetch"
    /\ UNCHANGED <<dir_created, pipelineVars, unitVars>>

\* The directory made before the page is looked at.
NoPageAfterMkdir ==
    /\ pc = "none"
    /\ dir_created' = TRUE
    /\ pc' = "album_returned"
    /\ UNCHANGED <<attempts, delays, pipelineVars, unitVars>>

\* if soup is None: return
NoPage ==
    /\ pc = "none"
    /\ pc' = "album_returned"
    /\ UNCHANGED <<albumVars, pipelineVars, unitVars>>

\* An OSError of mkdir that is logged and passed over: the pipeline is entered without
\* a directory.
MkdirIgnoreError ==
    /\ pc = "soup"
    /\ \E ok \in BOOLEAN:
        /\ dir_created' = ok
        /\ pc' = "enter"
        /\ attempts' = <<>>
        /\ delays' = <<>>
    /\ UNCHANGED <<pipelineVars, unitVars>>

\* With a page: the title and the path are computed, create_download_directory makes
\* the directory (mkdir(parents=True, exist_ok=True)) or, on OSError, logs it and
\* calls sys.exit(1); the links are extracted and run_in_parallel is called.  The
\* locals of fetch_page are gone by then.
Mkdir ==
    /\ pc = "soup"
    /\ \/ /\ dir_created' = TRUE
          /\ pc' = "enter"
          /\ attempts' = <<>>
          /\ delays' = <<>>
       \/ /\ pc' = "exit"
          /\ UNCHANGED albumVars
    /\ UNCHANGED <<pipelineVars, unitVars>>

AlbumNext == GetCookies \/ FetchAccept \/ FetchGone \/ FetchFail \/ NoPage \/ Mkdir \/ Next

\* One call of download_album, from its first statement to the end of the pipeline.
AlbumSpec == AlbumInit /\ [][AlbumNext]_vars

----
(***************************************************************************)
(* get_chunk_size, the function that picks the chunk size of a transfer    *)
(* from the declared file size.  The sources hold two versions of it: that *)
(* of src/download_utils.py, which reads the table of config.py, and that  *)
(* of helpers/download_utils.py, which carries its own table.              *)
(***************************************************************************)

KB == 1024
MB == 1024 * KB

\* config.py: THRESHOLDS, pairs of (threshold, chunk size), and the default.
THRESHOLDS == << <<1 * MB, 2 * KB>>, <<10 * MB, 4 * KB>>, <<100 * MB, 8 * KB>> >>
LARGE_FILE_CHUNK_SIZE == 16 * KB

\* helpers/download_utils.py: the local table of get_chunk_size.
thresholds == << <<1 * MB, 4 * KB>>, <<10 * MB, 8 * KB>>, <<100 * MB, 16 * KB>> >>

\* for threshold, chunk_size in table: if file_size < threshold: return chunk_size
\* and, after the loop, return fallback.
RECURSIVE FirstBelow(_, _, _)
FirstBelow(table, size, fallback) ==
    IF table = <<>> THEN fallback
    ELSE IF size < Head(table)[1] THEN Head(table)[2]
    ELSE FirstBelow(Tail(table), size, fallback)

\* As get_chunk_size, had an unknown size (-1) been given the large default.
get_chunk_size_unknown_large(size) ==
    IF size < 0 THEN LARGE_FILE_CHUNK_SIZE
    ELSE FirstBelow(THRESHOLDS, size, LARGE_FILE_CHUNK_SIZE)

\* get_chunk_size of src/download_utils.py.
get_chunk_size(size) == FirstBelow(THRESHOLDS, size, LARGE_FILE_CHUNK_SIZE)

\* get_chunk_size of helpers/download_utils.py.
helpers_get_chunk_size(size) == FirstBelow(thresholds, size, 64 * KB)

\* How far around each threshold the file sizes are taken.
SizeDelta == 1

\* The file sizes looked at: unknown (-1), empty, 500KB, and the sizes around the
\* three thresholds.
Sizes ==
    {-1, 0, 500 * KB} \cup
    {t + d : t \in {1 * MB, 10 * MB, 100 * MB}, d \in (-SizeDelta)..SizeDelta}

\* Nothing of the album or of the pipeline is going on.
Quiet ==
    /\ num_files = 0
    /\ pc = "off"
    /\ cur = 0
    /\ futures = <<>>
    /\ keys = <<>>
    /\ popped = 0
    /\ fstate = [i \in Links |-> "NONE"]
    /\ outcome = [i \in Links |-> "none"]
    /\ work_queue = <<>>
    /\ wpc = [i \in Links |-> "idle"]
    /\ file_size = [i \in Links |-> 0]
    /\ total_downloaded = [i \in Links |-> 0]
    /\ job_progress = [i \in Links |-> NoRow]
    /\ overall_progress = [created |-> FALSE, total |-> 0, completed |-> 0]
    /\ stdout = [i \in Links |-> 0]
    /\ advances = [i \in Links |-> 0]
    /\ attempts = <<>>
    /\ delays = <<>>
    /\ dir_created = FALSE

\* Two file sizes are given.
ChunkInit ==
    /\ Quiet
    /\ probe \in [at : {"input"}, a : Sizes, b : Sizes, chunk_a : {0}, chunk_b : {0}]
    /\ transfer = NoTransfer
    /\ batch = NoBatch
    /\ buffered = NoBuffer
    /\ parallel = NoParallel
    /\ run = NoRun
    /\ album = NoAlbum

\* get_chunk_size of src/download_utils.py is called on both sizes.
CallGetChunkSize ==
    /\ probe.at = "input"
    /\ probe' = [probe EXCEPT !.at = "src",
                              !.chunk_a = get_chunk_size(probe.a),
                              !.chunk_b = get_chunk_size(probe.b)]
    /\ UNCHANGED <<pc, albumVars, pipelineVars, transfer, batch, buffered, parallel, run, album>>

\* get_chunk_size of helpers/download_utils.py is called on both sizes.
CallHelpersGetChunkSize ==
    /\ probe.at = "input"
    /\ probe' = [probe EXCEPT !.at = "helpers",
                              !.chunk_a = helpers_get_chunk_size(probe.a),
                              !.chunk_b = helpers_get_chunk_size(probe.b)]
    /\ UNCHANGED <<pc, albumVars, pipelineVars, transfer, batch, buffered, parallel, run, album>>

ChunkNext == CallGetChunkSize \/ CallHelpersGetChunkSize

ChunkSpec == ChunkInit /\ [][ChunkNext]_vars

----
(***************************************************************************)
(* One transfer: download_item and save_file_with_progress.  The response  *)
(* declares a content length (or none) and delivers a body in chunks; the  *)
(* lengths are counted in units of bytes, and the chunk size the code asks *)
(* iter_content for only cuts the body differently.  A chunk is known by   *)
(* its position in the body: the file is the sequence of the positions     *)
(* written to it.                                                          *)
(***************************************************************************)

\* The most chunks a body has, the longest chunk, the largest declared length.
MaxBody == 3
MaxLen == 2
MaxDeclared == 4

\* int(response.headers.get("content-length", -1))
TransferSizes == (-1)..MaxDeclared

\* What iter_content yields: chunks, empty ones among them.
Bodies == UNION {[1..n -> 0..MaxLen] : n \in 0..MaxBody}

\* download_item is called for a link whose response will declare file_size and
\* deliver body.
TransferInit ==
    /\ Quiet
    /\ probe = NoProbe
    /\ batch = NoBatch
    /\ buffered = NoBuffer
    /\ parallel = NoParallel
    /\ run = NoRun
    /\ album = NoAlbum
    /\ \E size \in TransferSizes, b \in Bodies:
         transfer = [NoTransfer EXCEPT !.at = "call", !.file_size = size, !.body = b]

\* The bytes of the chunks at the positions in s.
RECURSIVE Bytes(_, _)
Bytes(body, s) == IF s = <<>> THEN 0 ELSE body[Head(s)] + Bytes(body, Tail(s))

\* As OnError, had the file been opened and closed by hand, with no finally clause.
OnErrorNoClose(t, e) == [t EXCEPT !.at = "raised", !.error = e]

\* As OnError, had the partial file been removed on failure.
OnErrorCleanup(t, e) ==
    [t EXCEPT !.handle = "closed", !.at = "raised", !.error = e,
              !.exists = FALSE, !.file = <<>>]

\* An exception inside with Path(download_path).open("wb") as file: the with block
\* closes the file and the exception leaves save_file_with_progress.
OnError(t, e) == [t EXCEPT !.handle = "closed", !.at = "raised", !.error = e]

\* As Reported, with the percentage taken before the chunk is counted.
ReportedBeforeAdd(t, c) == Pct(t.total_downloaded * 100, t.file_size)

\* total_downloaded += len(chunk)
\* progress_percentage = (total_downloaded / file_size) * 100
Reported(t, c) == Pct((t.total_downloaded + c) * 100, t.file_size)

\* configure_session(...) raises: the exception leaves download_item.
TRequestError ==
    /\ transfer.at = "call"
    /\ transfer' = [transfer EXCEPT !.at = "failed", !.error = "request"]
    /\ UNCHANGED <<pc, albumVars, pipelineVars, probe, batch, buffered, parallel, run, album>>

\* The response arrives and Path(download_path).open("wb") creates (or empties) the
\* file.
TOpen ==
    /\ transfer.at = "call"
    /\ transfer' = [transfer EXCEPT !.at = "stream", !.handle = "open",
                                    !.exists = TRUE, !.file = <<>>]
    /\ UNCHANGED <<pc, albumVars, pipelineVars, probe, batch, buffered, parallel, run, album>>

\* The response arrives and open raises OSError: there is no handle.
TOpenError ==
    /\ transfer.at = "call"
    /\ transfer' = [transfer EXCEPT !.at = "raised", !.error = "open"]
    /\ UNCHANGED <<pc, albumVars, pipelineVars, probe, batch, buffered, parallel, run, album>>

\* One turn of for chunk in response.iter_content(...): an empty chunk is passed
\* over; another is written and counted, the percentage is computed (a
\* ZeroDivisionError when file_size is 0) and passed to update_task.
TChunk ==
    /\ transfer.at = "stream"
    /\ transfer.next <= Len(transfer.body)
    /\ LET c == transfer.body[transfer.next]
           written == [transfer EXCEPT !.next = @ + 1,
                                       !.file = Append(@, transfer.next),
                                       !.total_downloaded = @ + c]
       IN transfer' =
            IF c = 0 THEN [transfer EXCEPT !.next = @ + 1]
            ELSE IF transfer.file_size = 0 THEN OnError(written, "zerodiv")
            ELSE [written EXCEPT !.reports = Append(@, Reported(transfer, c))]
    /\ UNCHANGED <<pc, albumVars, pipelineVars, probe, batch, buffered, parallel, run, album>>

\* iter_content raises (the connection breaks, the read times out).
TReadError ==
    /\ transfer.at = "stream"
    /\ transfer' = OnError(transfer, "read")
    /\ UNCHANGED <<pc, albumVars, pipelineVars, probe, batch, buffered, parallel, run, album>>

\* file.write(chunk) raises OSError: the chunk is not in the file.
TWriteError ==
    /\ transfer.at = "stream"
    /\ transfer.next <= Len(transfer.body)
    /\ transfer.body[transfer.next] > 0
    /\ transfer' = OnError([transfer EXCEPT !.next = @ + 1], "write")
    /\ UNCHANGED <<pc, albumVars, pipelineVars, probe, batch, buffered, parallel, run, album>>

\* live_manager.update_task raises after the chunk was written and counted.
TUpdateError ==
    /\ transfer.at = "stream"
    /\ transfer.next <= Len(transfer.body)
    /\ transfer.body[transfer.next] > 0
    /\ transfer.file_size # 0
    /\ transfer' = OnError([transfer EXCEPT !.next = @ + 1,
                                            !.file = Append(@, transfer.next),
                                            !.total_downloaded =
                                                @ + transfer.body[transfer.next]],
                           "update")
    /\ UNCHANGED <<pc, albumVars, pipelineVars, probe, batch, buffered, parallel, run, album>>

\* iter_content is exhausted: the with block closes the file, save_file_with_progress
\* and download_item return.
TEnd ==
    /\ transfer.at = "stream"
    /\ transfer.next > Len(transfer.body)
    /\ transfer' = [transfer EXCEPT !.handle = "closed", !.at = "returned"]
    /\ UNCHANGED <<pc, albumVars, pipelineVars, probe, batch, buffered, parallel, run, album>>

\* The exception leaves download_item through the with block of the response and is
\* stored in the task's future by the pool.
TPropagate ==
    /\ transfer.at = "raised"
    /\ transfer' = [transfer EXCEPT !.at = "failed"]
    /\ UNCHANGED <<pc, albumVars, pipelineVars, probe, batch, buffered, parallel, run, album>>

TransferNext ==
    \/ TRequestError
    \/ TOpen
    \/ TOpenError
    \/ TChunk
    \/ TReadError
    \/ TWriteError
    \/ TUpdateError
    \/ TEnd
    \/ TPropagate

TransferSpec == TransferInit /\ [][TransferNext]_vars

----
(***************************************************************************)
(* A list of albums: process_urls of main.py, with collect_links and       *)
(* download of helpers/album_downloader.py, which fetch an album page and  *)
(* download its files one after the other on the main thread.              *)
(***************************************************************************)

\* The albums of the list and the most links an album page has.
NumGroups == 2
MaxGroupLinks == 2

Groups == 1..NumGroups
GroupLinks == 1..MaxGroupLinks

\* process_urls is called with NumGroups URLs; sizes[g] is the number of links the
\* page of album g holds.
UrlsInit ==
    /\ Quiet
    /\ probe = NoProbe
    /\ transfer = NoTransfer
    /\ buffered = NoBuffer
    /\ parallel = NoParallel
    /\ run = NoRun
    /\ album = NoAlbum
    /\ \E sizes \in [Groups -> 0..MaxGroupLinks]:
         batch = [at |-> "url", sizes |-> sizes, g |-> 1, l |-> 1,
                  outcomes |-> [x \in Groups \X GroupLinks |-> "none"],
                  cause |-> "none"]

\* for url in urls: validate_url(url), which returns the URL or prints a message and
\* calls sys.exit(1); after the last URL process_urls returns.
NextUrl ==
    /\ batch.at = "url"
    /\ IF batch.g > NumGroups
       THEN batch' = [batch EXCEPT !.at = "done"]
       ELSE \/ batch' = [batch EXCEPT !.at = "collect"]
            \/ batch' = [batch EXCEPT !.at = "stopped", !.cause = "validate"]
    /\ UNCHANGED <<pc, albumVars, pipelineVars, probe, transfer, buffered, parallel, run, album>>

\* collect_links up to its for loop: SESSION.get raises, or the status is not 200 and
\* an Exception is raised; get_download_path makes the directory (os.makedirs may raise
\* OSError) and get_files_in_dir lists it.  Nothing catches these exceptions.
CollectLinks ==
    /\ batch.at = "collect"
    /\ \/ batch' = [batch EXCEPT !.at = "stopped", !.cause = "fetch"]
       \/ batch' = [batch EXCEPT !.at = "stopped", !.cause = "directory"]
       \/ batch' = [batch EXCEPT !.at = "files", !.l = 1]
    /\ UNCHANGED <<pc, albumVars, pipelineVars, probe, transfer, buffered, parallel, run, album>>

\* An exception of download: no try statement lies between it and the interpreter.
Uncaught(b) ==
    [b EXCEPT !.outcomes[<<b.g, b.l>>] = "raised", !.at = "stopped", !.cause = "transfer"]

\* One turn of for file_url in urls: download(...) skips a file that is already
\* there; otherwise it requests the file and handle_response writes it, or prints the
\* failure line when the response is not ok; the request, the read and the write may
\* raise.
Download ==
    /\ batch.at = "files"
    /\ batch.l <= batch.sizes[batch.g]
    /\ \/ \E how \in {"skipped", "ok", "not_ok"}:
            batch' = [batch EXCEPT !.outcomes[<<batch.g, batch.l>>] = how, !.l = @ + 1]
       \/ batch' = Uncaught(batch)
    /\ UNCHANGED <<pc, albumVars, pipelineVars, probe, transfer, buffered, parallel, run, album>>

\* The for loop of collect_links ends: "Download complete." is printed and
\* process_urls goes to the next URL.
AlbumComplete ==
    /\ batch.at = "files"
    /\ batch.l > batch.sizes[batch.g]
    /\ batch' = [batch EXCEPT !.at = "url", !.g = @ + 1, !.l = 1]
    /\ UNCHANGED <<pc, albumVars, pipelineVars, probe, transfer, buffered, parallel, run, album>>

UrlsNext == NextUrl \/ CollectLinks \/ Download \/ AlbumComplete

UrlsSpec == UrlsInit /\ [][UrlsNext]_vars


----
(***************************************************************************)
(* ProgressConfig.overall_buffer of config.py, a deque(maxlen=BUFFER_SIZE) *)
(* that keeps the last entries of the overall progress table.              *)
(***************************************************************************)

BUFFER_SIZE == 5

\* The entries that are appended, and how many appends are looked at.
NumEntries == 3
MaxAppends == 7

\* As deque_append, for a deque made without maxlen.
deque_append_unbounded(d, x) == Append(d, x)

\* d.append(x) on a deque(maxlen=BUFFER_SIZE): when the deque is full, the entry at
\* its left end is discarded.
deque_append(d, x) ==
    IF Len(d) >= BUFFER_SIZE THEN Append(Tail(d), x) ELSE Append(d, x)

\* A ProgressConfig is constructed.
BufferInit ==
    /\ Quiet
    /\ probe = NoProbe
    /\ transfer = NoTransfer
    /\ batch = NoBatch
    /\ buffered = NoBuffer
    /\ parallel = NoParallel
    /\ run = NoRun
    /\ album = NoAlbum

\* An entry is appended to overall_buffer.
BufferAppend ==
    /\ Len(buffered.appended) < MaxAppends
    /\ \E x \in 1..NumEntries:
         buffered' = [overall_buffer |-> deque_append(buffered.overall_buffer, x),
                      appended |-> Append(buffered.appended, x)]
    /\ UNCHANGED <<pc, albumVars, pipelineVars, probe, transfer, batch, parallel, run, album>>

BufferNext == BufferAppend

BufferSpec == BufferInit /\ [][BufferNext]_vars

----
(***************************************************************************)
(* run_in_parallel over download_item: the links of one album are saved by *)
(* the pool's workers into one directory, each under the file name that is *)
(* the final segment of its link's path.  The progress reports of a        *)
(* transfer are those of the transfer section and are left out here.       *)
(***************************************************************************)

\* The links of the album, and the chunks of one response body that are looked at.
NumItems == 2
MaxWrites == 1
Items == 1..NumItems

\* The final path segments of the links, and the statuses of their responses.
FileNames == {"a.mp4", "b.mp4"}
Statuses == {"200", "404"}

\* A name of the directory: no file, or a file from before the run (one byte,
\* written -1; a byte written by task i is written i, a NUL byte 0).
Absent == [exists |-> FALSE, data |-> <<>>]
Previous == [exists |-> TRUE, data |-> <<-1>>]

\* run_in_parallel is entered: download_links holds NumItems distinct links, named
\* by their positions, whose file names may coincide.
ItemsInit ==
    /\ Quiet
    /\ probe = NoProbe
    /\ transfer = NoTransfer
    /\ batch = NoBatch
    /\ buffered = NoBuffer
    /\ run = NoRun
    /\ album = NoAlbum
    /\ \E nm \in [Items -> FileNames], d \in [FileNames -> {Absent, Previous}]:
         parallel = [at |-> "pool",
                     names |-> nm,
                     next |-> 1,
                     waiting |-> FALSE,
                     pos |-> [i \in Items |-> "unsubmitted"],
                     status |-> [i \in Items |-> "none"],
                     offset |-> [i \in Items |-> 0],
                     dir |-> d]

\* The tasks whose future is RUNNING.
ItemsRunning == {i \in Items: parallel.pos[i] \in {"request", "response", "open"}}

\* The tasks that hold final_path open for writing.
ItemsOpen == {i \in Items: parallel.pos[i] = "open"}

\* The for loop of run_in_parallel: add_task, executor.submit, futures[future] =
\* task_id, and manage_running_tasks is entered.
ItemSubmit ==
    /\ parallel.at = "pool"
    /\ ~parallel.waiting
    /\ parallel.next <= NumItems
    /\ parallel' = [parallel EXCEPT !.pos[parallel.next] = "queued",
                                    !.waiting = TRUE]
    /\ UNCHANGED <<pc, albumVars, pipelineVars, probe, transfer, batch, buffered, run, album>>

\* manage_running_tasks: the submitted future is seen running and popped; futures is
\* empty and the for loop goes on.  A future that is not running is polled again.
ItemSeenRunning ==
    /\ parallel.at = "pool"
    /\ parallel.waiting
    /\ parallel.next \in ItemsRunning
    /\ parallel' = [parallel EXCEPT !.waiting = FALSE, !.next = @ + 1]
    /\ UNCHANGED <<pc, albumVars, pipelineVars, probe, transfer, batch, buffered, run, album>>

\* The with block of run_in_parallel is left: shutdown(wait=True) returns when every
\* task has ended.
ItemsExit ==
    /\ parallel.at = "pool"
    /\ ~parallel.waiting
    /\ parallel.next > NumItems
    /\ ItemsRunning = {}
    /\ parallel' = [parallel EXCEPT !.at = "exited"]
    /\ UNCHANGED <<pc, albumVars, pipelineVars, probe, transfer, batch, buffered, run, album>>

\* A free worker takes the queued task: download_item is called.
ItemStart(i) ==
    /\ parallel.pos[i] = "queued"
    /\ Cardinality(ItemsRunning) < MAX_WORKERS
    /\ parallel' = [parallel EXCEPT !.pos[i] = "request"]
    /\ UNCHANGED <<pc, albumVars, pipelineVars, probe, transfer, batch, buffered, run, album>>

\* configure_session: the request raises, or a response arrives, of any status.
ItemRequest(i) ==
    /\ parallel.pos[i] = "request"
    /\ \/ parallel' = [parallel EXCEPT !.pos[i] = "raised"]
       \/ \E s \in Statuses:
            parallel' = [parallel EXCEPT !.pos[i] = "response", !.status[i] = s]
    /\ UNCHANGED <<pc, albumVars, pipelineVars, probe, transfer, batch, buffered, run, album>>

\* save_file_with_progress: Path(download_path).open("wb") creates the file or
\* truncates it, whatever the status of the response; or open raises.
ItemOpen(i) ==
    /\ parallel.pos[i] = "response"
    /\ \/ parallel' = [parallel EXCEPT !.pos[i] = "raised"]
       \/ parallel' = [parallel EXCEPT
                         !.pos[i] = "open",
                         !.dir[parallel.names[i]] = [exists |-> TRUE, data |-> <<>>]]
    /\ UNCHANGED <<pc, albumVars, pipelineVars, probe, transfer, batch, buffered, run, album>>

\* file.write at position k of a handle: the bytes before k are kept, a gap between
\* the end of the file and k reads as NUL bytes.
WriteAt(data, k, i) ==
    [j \in 1..(IF Len(data) > k THEN Len(data) ELSE k) |->
       IF j = k THEN i ELSE IF j <= Len(data) THEN data[j] ELSE 0]

\* One non-empty chunk of iter_content: file.write(chunk) at the handle's position.
ItemWrite(i) ==
    /\ parallel.pos[i] = "open"
    /\ parallel.offset[i] < MaxWrites
    /\ parallel' = [parallel EXCEPT
                      !.offset[i] = @ + 1,
                      !.dir[parallel.names[i]].data = WriteAt(@, parallel.offset[i] + 1, i)]
    /\ UNCHANGED <<pc, albumVars, pipelineVars, probe, transfer, batch, buffered, run, album>>

\* iter_content is exhausted: the with block closes the file and download_item returns.
ItemClose(i) ==
    /\ parallel.pos[i] = "open"
    /\ parallel' = [parallel EXCEPT !.pos[i] = "closed"]
    /\ UNCHANGED <<pc, albumVars, pipelineVars, probe, transfer, batch, buffered, run, album>>

\* iter_content, file.write or the progress report raises: the with block closes the
\* file and the exception is kept in the future.
ItemRaise(i) ==
    /\ parallel.pos[i] = "open"
    /\ parallel' = [parallel EXCEPT !.pos[i] = "raised"]
    /\ UNCHANGED <<pc, albumVars, pipelineVars, probe, transfer, batch, buffered, run, album>>

ItemsNext ==
    \/ ItemSubmit
    \/ ItemSeenRunning
    \/ ItemsExit
    \/ \E i \in Items:
         \/ ItemStart(i)
         \/ ItemRequest(i)
         \/ ItemOpen(i)
         \/ ItemWrite(i)
         \/ ItemClose(i)
         \/ ItemRaise(i)

ItemsSpec == ItemsInit /\ [][ItemsNext]_vars

----
(***************************************************************************)
(* main: the dump file is emptied, the arguments are parsed, the profile   *)
(* is dumped when one is given, the list file is read, process_urls works  *)
(* through it, and the default list file is emptied.                       *)
(***************************************************************************)

\* The lines of a list file that holds the URLs of the albums.
UrlList == [g \in Groups |-> g]

\* main is called: with or without --profile; URLs.txt holds the list when it is
\* the file to read, and the list or nothing otherwise; profile_dump.txt holds
\* nothing or the list of an earlier run.
RunInit ==
    /\ Quiet
    /\ probe = NoProbe
    /\ transfer = NoTransfer
    /\ batch = NoBatch
    /\ buffered = NoBuffer
    /\ parallel = NoParallel
    /\ album = NoAlbum
    /\ \E p \in BOOLEAN, d \in {<<>>, UrlList}, dump \in {<<>>, UrlList}:
         /\ ~p => d = UrlList
         /\ run = [at |-> "start", profile |-> p, DEFAULT_FILE |-> d,
                   DUMP_FILE |-> dump, before |-> d, urls |-> <<>>]

\* write_file(DUMP_FILE)
ClearDump ==
    /\ run.at = "start"
    /\ run' = [run EXCEPT !.DUMP_FILE = <<>>, !.at = "args"]
    /\ UNCHANGED <<pc, albumVars, pipelineVars, probe, transfer, batch, buffered, parallel, album>>

\* parser.parse_args() exits on arguments it does not know; otherwise
\* handle_profile_processing: without --profile nothing is done; with it
\* fetch_profile_page may exit, a ValueError of the extraction is printed and passed
\* over, and generate_profile_dump writes the album links to the dump file.
ParseArgs ==
    /\ run.at = "args"
    /\ \/ run' = [run EXCEPT !.at = "stopped"]
       \/ /\ ~run.profile
          /\ run' = [run EXCEPT !.at = "read"]
       \/ /\ run.profile
          /\ \/ run' = [run EXCEPT !.at = "stopped"]
             \/ run' = [run EXCEPT !.at = "read"]
             \/ run' = [run EXCEPT !.DUMP_FILE = UrlList, !.at = "read"]
    /\ UNCHANGED <<pc, albumVars, pipelineVars, probe, transfer, batch, buffered, parallel, album>>

\* process_urls is entered with the URLs read: the loop over an empty list is over
\* at once.
Entered(urls, sizes) ==
    IF urls = <<>>
    THEN [NoBatch EXCEPT !.at = "done"]
    ELSE [at |-> "url", sizes |-> sizes, g |-> 1, l |-> 1,
          outcomes |-> [x \in Groups \X GroupLinks |-> "none"],
          cause |-> "none"]

\* As ReadFile, with the default list file emptied as soon as the list is read.
ReadFileAndClear ==
    /\ run.at = "read"
    /\ LET urls == IF run.profile THEN run.DUMP_FILE ELSE run.DEFAULT_FILE IN
       /\ run' = [run EXCEPT !.urls = urls, !.at = "process", !.DEFAULT_FILE = <<>>]
       /\ \E sizes \in [Groups -> 0..MaxGroupLinks]: batch' = Entered(urls, sizes)
    /\ UNCHANGED <<pc, albumVars, pipelineVars, probe, transfer, buffered, parallel, album>>

\* file_to_read = DUMP_FILE if args.profile else DEFAULT_FILE;
\* urls = read_file(file_to_read); process_urls(urls, profile_name) is called.
ReadFile ==
    /\ run.at = "read"
    /\ LET urls == IF run.profile THEN run.DUMP_FILE ELSE run.DEFAULT_FILE IN
       /\ run' = [run EXCEPT !.urls = urls, !.at = "process"]
       /\ \E sizes \in [Groups -> 0..MaxGroupLinks]: batch' = Entered(urls, sizes)
    /\ UNCHANGED <<pc, albumVars, pipelineVars, probe, transfer, buffered, parallel, album>>

\* process_urls has returned: write_file(DEFAULT_FILE), and main returns.
ClearDefault ==
    /\ run.at = "process"
    /\ batch.at = "done"
    /\ run' = [run EXCEPT !.DEFAULT_FILE = <<>>, !.at = "returned"]
    /\ UNCHANGED <<pc, albumVars, pipelineVars, probe, transfer, batch, buffered, parallel, album>>

RunNext == ClearDump \/ ParseArgs \/ ReadFile \/ UrlsNext \/ ClearDefault

RunSpec == RunInit /\ [][RunNext]_vars

----
(***************************************************************************)
(* The sequential downloader, one album: collect_links from                *)
(* get_files_in_dir on, and download for each link of the list.            *)
(***************************************************************************)

\* The links of the album's list.
NumSeqLinks == 2
SeqLinks == 1..NumSeqLinks

\* collect_links has fetched the page and made the directory: urls holds
\* NumSeqLinks distinct links, named by their positions, names[k] is the file name
\* of link k, and dir the file names in the directory.
SeqInit ==
    /\ Quiet
    /\ probe = NoProbe
    /\ transfer = NoTransfer
    /\ batch = NoBatch
    /\ buffered = NoBuffer
    /\ parallel = NoParallel
    /\ run = NoRun
    /\ \E nm \in [SeqLinks -> FileNames], d \in SUBSET FileNames:
         album = [at |-> "listing", names |-> nm, dir |-> d, before |-> d,
                  existing_files |-> {}, l |-> 1, requests |-> <<>>, writes |-> <<>>]

\* existing_files = get_files_in_dir(download_path)
ListFiles ==
    /\ album.at = "listing"
    /\ album' = [album EXCEPT !.existing_files = album.dir, !.at = "files"]
    /\ UNCHANGED <<pc, albumVars, pipelineVars, probe, transfer, batch, buffered, parallel, run>>

\* download for a link whose file name is in existing_files: the skip is printed and
\* download returns.
SeqSkip ==
    /\ album.at = "files"
    /\ album.l <= NumSeqLinks
    /\ album.names[album.l] \in album.existing_files
    /\ album' = [album EXCEPT !.l = @ + 1]
    /\ UNCHANGED <<pc, albumVars, pipelineVars, probe, transfer, batch, buffered, parallel, run>>

\* download for any other link: configure_session_request sends the request, which
\* raises or brings a response; handle_response prints the failure of a response that
\* is not ok, and otherwise opens final_path with "wb" and writes the chunks, which
\* may raise.  No exception is caught: it ends the for loop of collect_links.
SeqDownload ==
    /\ album.at = "files"
    /\ album.l <= NumSeqLinks
    /\ album.names[album.l] \notin album.existing_files
    /\ LET sent == [album EXCEPT !.requests = Append(@, album.l)]
           opened == [sent EXCEPT !.writes = Append(@, album.l),
                                  !.dir = @ \cup {album.names[album.l]}]
       IN \/ album' = [sent EXCEPT !.at = "stopped"]
          \/ album' = [sent EXCEPT !.l = @ + 1]
          \/ album' = [opened EXCEPT !.l = @ + 1]
          \/ album' = [opened EXCEPT !.at = "stopped"]
    /\ UNCHANGED <<pc, albumVars, pipelineVars, probe, transfer, batch, buffered, parallel, run>>

\* The for loop ends: "Download complete." is printed.
SeqComplete ==
    /\ album.at = "files"
    /\ album.l > NumSeqLinks
    /\ album' = [album EXCEPT !.at = "complete"]
    /\ UNCHANGED <<pc, albumVars, pipelineVars, probe, transfer, batch, buffered, parallel, run>>

SeqNext == ListFiles \/ SeqSkip \/ SeqDownload \/ SeqComplete

SeqSpec == SeqInit /\ [][SeqNext]_vars

----
(***************************************************************************)
(* Properties of the pipeline.                                             *)
(***************************************************************************)

Submitted == {i \in Links: fstate[i] # "NONE"}
RunningTasks == {i \in Links: fstate[i] = "RUNNING"}
VisibleRows == {i \in Links: job_progress[i].visible}
\* The download of task i failed: an exception, or an unsuccessful response status.
Failed(i) == outcome[i] \in {"raised", "not_ok"}

\* C1: in the state where run_in_parallel (collect_links) has returned, no task it
\* submitted is still queued or running.
C1_ReturnsAfterAllTasks ==
    pc = "returned" =>
        /\ work_queue = <<>>
        /\ \A i \in Submitted: fstate[i] = "FINISHED" /\ wpc[i] = "done"

\* C1 witness: the call has returned after all NumLinks tasks were submitted and
\* ended, one of them with an error and one successfully.
C1_Witness ==
    /\ pc = "returned"
    /\ Submitted = Links
    /\ \E i, j \in Links: outcome[i] = "raised" /\ outcome[j] = "ok"

\* C2: under fair scheduling of the main thread (the monitor loop) and of the worker
\* threads, run_in_parallel eventually returns.
C2_EventuallyReturns == <>(pc = "returned")

\* C3: the overall counter's completed count never exceeds its total, and equals the
\* total in the state where run_in_parallel has returned.
C3_CompletedReachesTotal ==
    /\ overall_progress.completed <= overall_progress.total
    /\ pc = "returned" => overall_progress.completed = overall_progress.total

\* C4: the overall counter is advanced exactly once for every task: never twice, and
\* once by the time the task has ended, whether its download succeeded or failed.
C4_AdvancedOncePerTask ==
    \A i \in Links:
        /\ advances[i] <= 1
        /\ fstate[i] = "FINISHED" => advances[i] = 1

C6_FailureRecorded ==
    pc = "returned" => \A i \in Links: Failed(i) => stdout[i] = 1

\* C7: never more than MAX_WORKERS tasks are running at once.
C7_AtMostNRunning == Cardinality(RunningTasks) <= MAX_WORKERS

\* C7 witness: MAX_WORKERS tasks are running while a further submitted link waits.
C7_Witness ==
    /\ Cardinality(RunningTasks) = MAX_WORKERS
    /\ \E i \in Links: fstate[i] = "PENDING"

\* C8: the number of visible item rows is at most the number of running tasks.
C8_VisibleAtMostRunning == Cardinality(VisibleRows) <= Cardinality(RunningTasks)

\* C9: when every download of the group succeeded, no item row is visible and every
\* row is at 100% in the state where run_in_parallel has returned.
C9_AllHiddenAtReturn ==
    (pc = "returned" /\ \A i \in 1..num_files: outcome[i] = "ok") =>
        \A i \in 1..num_files: RowDone(job_progress[i])

\* The row of task i is Done: hidden at 100% by the worker's final update.
Done(i) == RowDone(job_progress[i]) /\ wpc[i] \in {"advance", "done"}

\* C10: no row reaches Done without having been visible: the step that makes a row
\* Done starts from a state in which the row is visible (once visible, a row is
\* hidden by nothing but that step).
C10_DoneOnlyFromVisible ==
    [][\A i \in Links: (Done(i)' /\ ~Done(i)) => job_progress[i].visible]_vars

\* The tasks whose execution has begun.
Started == {i \in Links: fstate[i] \in {"RUNNING", "FINISHED"}}

\* C11: tasks are submitted in list order and begin executing in that order: for
\* links i < j, whenever j's task is submitted so is i's, and whenever j's task has
\* begun executing so has i's.
C11_SubmitAndStartInOrder ==
    \A i, j \in Links:
        i < j => /\ (j \in Submitted => i \in Submitted)
                 /\ (j \in Started => i \in Started)

\* C11 witness: completion order is free: the second link's task has ended while
\* the first link's task, started before it, is still running.
C11_Witness == fstate[1] = "RUNNING" /\ fstate[2] = "FINISHED"

\* C12: submission is throttled: at most one submitted task waits in the pool's
\* queue, and when the loop is about to take the next link every future submitted
\* so far has been observed running (the dict futures is empty).
C12_SubmissionThrottled ==
    /\ Len(work_queue) <= 1
    /\ Cardinality({i \in Links: fstate[i] = "PENDING"}) <= 1
    /\ pc = "for" => futures = <<>> /\ \A i \in Submitted: i \in Started

\* C12 witness: the monitor holds the main thread in its loop while the task
\* submitted last waits in the queue behind MAX_WORKERS busy workers.
C12_Witness ==
    /\ pc = "mon_for"
    /\ work_queue = <<cur>>
    /\ Cardinality(Busy) = MAX_WORKERS

\* C13: the download function is invoked exactly once per link: a worker enters it
\* only for a task never dispatched before, a dispatched task never goes back to
\* the queue, also after a failure, and at return every link has been run once.
C13_InvokedExactlyOnce ==
    /\ [](pc = "returned" =>
            \A i \in Links: wpc[i] = (IF i <= num_files THEN "done" ELSE "idle"))
    /\ [][\A i \in Links:
            /\ (wpc'[i] = "request" /\ wpc[i] # "request") => wpc[i] = "idle"
            /\ wpc[i] # "idle" => wpc'[i] # "idle"
            /\ wpc[i] = "done" => wpc'[i] = "done"]_vars

\* C13 witness: the call has returned after a transfer of the first link failed in
\* mid-stream; the task was not run again.
C13_Witness ==
    /\ pc = "returned"
    /\ num_files = NumLinks
    /\ outcome[1] = "raised"
    /\ job_progress[1].completed # <<0, 1>>

\* Control has left run_in_parallel with the interrupt's exception.
Left == pc = "raised"
\* The interrupt has arrived.
Interrupted == pc \in {"interrupted", "raised"}

\* C14: after an interrupt, no further task is submitted, and when control leaves
\* run_in_parallel every submitted task has run to its end.
C14_DrainedBeforeLeaving ==
    /\ [](Left => \A i \in Submitted: fstate[i] = "FINISHED")
    /\ [][Interrupted => Submitted' = Submitted]_vars

\* C14 as amended: after an interrupt no further task is submitted and no running
\* task is stopped; and when the interrupt arrived in the for loop or the monitor
\* loop, control leaves run_in_parallel only once every submitted task has run to
\* its own end.
C14_DrainedAfterLoopInterrupt ==
    [][/\ Interrupted => Submitted' = Submitted
       /\ Interrupted =>
            \A i \in Links: fstate[i] = "RUNNING" =>
                \/ fstate'[i] = "RUNNING"
                \/ fstate'[i] = "FINISHED" /\ outcome'[i] # "none"
       /\ (pc = "interrupted" /\ pc' # "interrupted") =>
            /\ pc' = "raised"
            /\ \A i \in Submitted: fstate[i] = "FINISHED" /\ outcome[i] # "none"]_vars

\* C14 witness: the interrupt arrived in the loops with links still to submit;
\* control has left, the later links were never submitted and every submitted task
\* has ended.
C14_Witness ==
    /\ Left
    /\ 1 <= cur /\ cur < num_files
    /\ Submitted = 1..cur
    /\ \A i \in 1..cur: outcome[i] # "none"

----
(***************************************************************************)
(* Properties of download_album and fetch_page.                            *)
(***************************************************************************)

Last(s) == s[Len(s)]
Front(s) == SubSeq(s, 1, Len(s) - 1)
\* Every attempt of s raised a RequestException.
AllFailed(s) == \A k \in 1..Len(s): s[k] \in Failing
\* All retries attempts of the call failed.
Exhausted == Len(attempts) = retries /\ AllFailed(attempts)
\* No progress table has been touched.
NoProgressState == ~overall_progress.created /\ \A i \in Links: job_progress[i] = NoRow

\* C15: one call of fetch_page issues at most retries GETs; an attempt is made only
\* first or after a failed one (a RequestException), the call stops at the first
\* attempt that is accepted (or answered 404/410), and a delay is slept between two
\* consecutive attempts only: as many delays as attempts while the loop goes on, one
\* less once the call has returned or exited, and never one after the last attempt.
C15_BoundedAttempts ==
    /\ Len(attempts) <= retries
    /\ Len(delays) <= retries - 1
    /\ pc = "fetch" => Len(delays) = Len(attempts) /\ AllFailed(attempts)
    /\ pc \in {"soup", "none", "album_returned", "exit"} =>
           /\ Len(delays) = Len(attempts) - 1
           /\ AllFailed(Front(attempts))
    /\ (pc = "exit" /\ Last(attempts) \in Failing) => Len(attempts) = retries

\* C15 witness: the page is obtained by the last permitted attempt, after three
\* failures and three delays.
C15_Witness ==
    pc = "soup" /\ Len(attempts) = retries /\ Len(delays) = retries - 1

\* C16, as stated: the delay slept after the attempt of (zero-based) index attempt
\* failed is 2^attempt + j seconds with j in [1, 2], and the delays increase strictly.
C16_DelayTwoToAttempt ==
    /\ \A k \in 1..Len(delays):
           /\ delays[k] >= 10 * 2^(k - 1) + 10
           /\ delays[k] <= 10 * 2^(k - 1) + 20
    /\ \A k \in 1..(Len(delays) - 1): delays[k] < delays[k + 1]

\* C16, amended: the delay slept after the attempt of (zero-based) index attempt
\* failed is 2^(attempt + 1) + j seconds with j in [1, 2]: 3 to 4 s after the first
\* failure, 5 to 6 s after the second, 9 to 10 s after the third; the delays increase
\* strictly.  (delays[k] follows the attempt of index k - 1.)
C16_DelayTwoToAttemptPlusOne ==
    /\ \A k \in 1..Len(delays):
           /\ delays[k] >= 10 * 2^k + 10
           /\ delays[k] <= 10 * 2^k + 20
    /\ \A k \in 1..(Len(delays) - 1): delays[k] < delays[k + 1]

\* C16 witness: three attempts failed; the jitters drawn were 2 s, 2 s and 1 s.
C16_Witness ==
    Len(delays) = retries - 1 /\ delays[1] = 40 /\ delays[2] = 60 /\ delays[3] = 90

\* C17: an attempt answered 404 or 410 makes fetch_page return None at once: no delay
\* is slept for it, and from there download_album only returns; no further attempt,
\* no process exit.
C17_GoneReturnsNoneAtOnce ==
    /\ [][(pc = "fetch" /\ Len(attempts') = Len(attempts) + 1 /\ Last(attempts') \in Gone)
              => (pc' = "none" /\ delays' = delays)]_vars
    /\ [][pc = "none"
              => (attempts' = attempts /\ delays' = delays /\ pc' = "album_returned")]_vars

\* C17 witness: the second attempt, made after one failure and one delay, is answered 410.
C17_Witness ==
    pc = "none" /\ Len(attempts) = 2 /\ attempts[2] = "410" /\ Len(delays) = 1

\* C18: when all retries attempts failed the process has exited: nothing is submitted
\* and no step follows; and fetch_page returns None only for a 404 or 410 answer,
\* never for exhausted retries.
C18_ExhaustedRetriesExit ==
    /\ Exhausted => (pc = "exit" /\ Submitted = {} /\ ~ENABLED AlbumNext)
    /\ pc \in {"none", "album_returned"} => (attempts # <<>> /\ Last(attempts) \in Gone)

\* C18 witness: four failed attempts, the last a network exception, and the exit.
C18_Witness ==
    Exhausted /\ pc = "exit" /\ attempts[retries] = "exc"

\* C19: once the page fetch was answered 404 or 410, download_album only returns:
\* no directory exists, nothing was submitted (run_in_parallel is not entered), no
\* progress table was touched, and nothing happens after the return.
C19_GoneLeavesNoTrace ==
    (attempts # <<>> /\ Last(attempts) \in Gone) =>
        /\ pc \in {"none", "album_returned"}
        /\ ~dir_created
        /\ Submitted = {}
        /\ NoProgressState
        /\ pc = "album_returned" => ~ENABLED AlbumNext

\* C19 witness: download_album has returned after a 410 answer.
C19_Witness ==
    pc = "album_returned" /\ Last(attempts) = "410"

\* C20: after exhausted retries, and after an OSError of the directory creation, the
\* process has exited with nothing submitted, no overall counter and no row, and no
\* step follows; and without the directory nothing is ever submitted and no overall
\* counter is created.
C20_GroupErrorsAbortBeforeSubmit ==
    /\ pc = "exit" => (Submitted = {} /\ NoProgressState /\ ~ENABLED AlbumNext)
    /\ Exhausted => pc = "exit"
    /\ ~dir_created => (Submitted = {} /\ ~overall_progress.created)

\* C20 witness: the page was fetched, the directory could not be created, the process
\* exited.
C20_Witness ==
    pc = "exit" /\ attempts # <<>> /\ Last(attempts) \in Accepted /\ ~dir_created

----
(***************************************************************************)
(* Further properties of the pipeline and of one transfer.                 *)
(***************************************************************************)

\* C21: with zero links run_in_parallel goes straight through: the overall counter is
\* created with total 0 and completed 0, no row is allocated, nothing is submitted, the
\* monitor loop is never entered, and the exit of the with block does not wait.
C21_ZeroLinksReturnsAtOnce ==
    num_files = 0 =>
        /\ pc \in {"enter", "for", "shutdown", "returned"}
        /\ pc # "enter" => overall_progress = [created |-> TRUE, total |-> 0, completed |-> 0]
        /\ \A i \in Links: job_progress[i] = NoRow
        /\ Submitted = {}
        /\ pc = "shutdown" => ENABLED ShutdownWait

\* C21 witness: run_in_parallel has returned for an empty link list.
C21_Witness ==
    num_files = 0 /\ pc = "returned" /\ overall_progress.created

\* C22: get_chunk_size is monotonic, in both versions: of two file sizes a <= b (the
\* unknown size -1 and the thresholds themselves included) the larger never gets the
\* smaller chunk size.
C22_ChunkSizeMonotonic ==
    (probe.at \in {"src", "helpers"} /\ probe.a <= probe.b) => probe.chunk_a <= probe.chunk_b

\* C22 witness: the unknown size and the first threshold, which fall in different tiers.
C22_Witness ==
    /\ probe.at = "src"
    /\ probe.a = -1 /\ probe.b = 1 * MB
    /\ probe.chunk_a = 2 * KB /\ probe.chunk_b = 4 * KB

\* The chunk size c is the one the table of the specification gives for the size:
\* below 1MB 2KB, from 1MB to below 10MB 4KB, from 10MB to below 100MB 8KB, from
\* 100MB on at least 16KB; a size equal to a threshold is in the higher tier.
InTier(size, c) ==
    /\ size < 1 * MB => c = 2 * KB
    /\ (1 * MB <= size /\ size < 10 * MB) => c = 4 * KB
    /\ (10 * MB <= size /\ size < 100 * MB) => c = 8 * KB
    /\ 100 * MB <= size => c >= 16 * KB

\* C23: get_chunk_size, in both versions, gives every size the chunk size of the
\* specification's table; a declared length of 500KB gets 2KB.
C23_FollowsSpecTable ==
    probe.at \in {"src", "helpers"} =>
        /\ InTier(probe.a, probe.chunk_a)
        /\ InTier(probe.b, probe.chunk_b)

\* A percentage p (a fraction with positive denominator) lies in [0, 100].
InRange(p) == p[1] >= 0 /\ p[1] <= 100 * p[2]
\* p <= q for two percentages.
PctLeq(p, q) == p[1] * q[2] <= q[1] * p[2]
\* The positions of the non-empty chunks of a body, in order.
NonEmptyPositions(body) == SelectSeq([k \in 1..Len(body) |-> k], LAMBDA k: body[k] > 0)

\* C24: every completed value passed to update_task lies in [0, 100], whatever the
\* declared length (-1 and 0 included) and whatever the body.
C24_CompletedInRange ==
    \A k \in 1..Len(transfer.reports): InRange(transfer.reports[k])

\* C25: a transfer whose response declares no content length (-1) makes no percentage
\* update; it writes every non-empty chunk and, when it returns, has raised nothing.
C25_NoReportWithoutLength ==
    transfer.file_size = -1 =>
        /\ transfer.reports = <<>>
        /\ transfer.at = "returned" =>
               (transfer.file = NonEmptyPositions(transfer.body) /\ transfer.error = "none")

\* C26: no update of a row lowers its percentage; a row that is hidden at 100 stays
\* so; and the row of a task that completed stands at 100.
C26_MonotoneThenRetired ==
    /\ [](\A i \in Links: outcome[i] = "ok" => IsHundred(job_progress[i].completed))
    /\ [][\A i \in Links:
            /\ PctLeq(job_progress[i].completed, job_progress'[i].completed)
            /\ RowDone(job_progress[i]) => RowDone(job_progress'[i])]_vars

\* The bytes in the file after its first k writes.
BytesWritten(t, k) == Bytes(t.body, SubSeq(t.file, 1, k))

\* C27: when a transfer has returned without error, the file holds exactly the
\* non-empty chunks of the body in their order, one write each; the k-th report is
\* the bytes written by then over the declared length, times 100; and the report made
\* when the bytes written equal the declared length is 100, every earlier one less.
C27_FileAndReportsExact ==
    (transfer.at = "returned" /\ transfer.error = "none") =>
        /\ transfer.file = NonEmptyPositions(transfer.body)
        /\ Len(transfer.reports) = Len(transfer.file)
        /\ \A k \in 1..Len(transfer.reports):
             /\ transfer.reports[k] = Pct(BytesWritten(transfer, k) * 100, transfer.file_size)
             /\ BytesWritten(transfer, k) = transfer.file_size =>
                    /\ IsHundred(transfer.reports[k])
                    /\ \A j \in 1..(k - 1):
                         /\ PctLeq(transfer.reports[j], <<100, 1>>)
                         /\ ~IsHundred(transfer.reports[j])

\* C27 witness: 4 bytes declared, delivered as two chunks of 2 bytes with an empty
\* chunk between them: reports 50 and 100.
C27_Witness ==
    /\ transfer.at = "returned"
    /\ transfer.file_size = 4
    /\ transfer.body = <<2, 0, 2>>
    /\ transfer.file = <<1, 3>>
    /\ transfer.reports = << <<50, 1>>, <<100, 1>> >>

\* C28: once the transfer has ended, by return or by an exception of the read, the
\* write or the progress update, the file handle is not open.
C28_HandleClosedOnExit ==
    transfer.at \in {"returned", "raised", "failed"} => transfer.handle # "open"

\* C28 witness: a write raised after the first chunk was written; the handle is closed and the
\* exception has left download_item.
C28_Witness ==
    /\ transfer.at = "failed"
    /\ transfer.error = "write"
    /\ transfer.file = <<1>>
    /\ transfer.handle = "closed"

\* s is an initial part of t.
IsPrefix(s, t) == Len(s) <= Len(t) /\ SubSeq(t, 1, Len(s)) = s

\* C29: a transfer that met an error never returns normally: the exception leaves
\* save_file_with_progress and then download_item, where the task ends as failed;
\* the step of the error removes nothing from the file, and after it the file is
\* left as it is: nothing more is written, nothing is deleted, nothing is reported.
C29_ErrorAbortsTransferOnly ==
    /\ [](transfer.error # "none" => transfer.at \in {"raised", "failed"})
    /\ [][transfer.at = "stream" =>
              (transfer'.exists /\ IsPrefix(transfer.file, transfer'.file))]_vars
    /\ [][transfer.error # "none" =>
              /\ transfer'.at = "failed"
              /\ transfer'.file = transfer.file
              /\ transfer'.exists = transfer.exists
              /\ transfer'.reports = transfer.reports]_vars

\* C29 witness: the connection broke after the first chunk was written; the task has
\* failed and the chunk is still in the file.
C29_Witness ==
    /\ transfer.at = "failed"
    /\ transfer.error = "read"
    /\ transfer.exists
    /\ transfer.file = <<1>>
    /\ transfer.next = 2
    /\ Len(transfer.body) = 2

\* The links of the list that download was never called for.
Unprocessed ==
    {x \in Groups \X GroupLinks: x[2] <= batch.sizes[x[1]] /\ batch.outcomes[x] = "none"}

\* C30: the failure of one file's transfer does not stop the list: processing stops
\* before the end of the list only for a failure at the level of the album (its URL,
\* the fetch of its page, its directory), and when process_urls returns every link of
\* every album has been processed.
C30_TransferFailureDoesNotStop ==
    /\ batch.at = "stopped" => batch.cause \in {"validate", "fetch", "directory"}
    /\ batch.at = "done" => Unprocessed = {}

----
(***************************************************************************)
(* Properties of the history buffer, of the progress rows, of the          *)
(* destination files and of the command-line runs.                         *)
(***************************************************************************)

\* The last n elements of s (all of s when it has fewer).
LastN(s, n) == IF Len(s) <= n THEN s ELSE SubSeq(s, Len(s) - n + 1, Len(s))

\* C31: after any sequence of appends overall_buffer holds at most BUFFER_SIZE
\* entries: the last BUFFER_SIZE entries appended (all of them while there are fewer),
\* in the order of their insertion.
C31_BufferBounded ==
    /\ Len(buffered.overall_buffer) <= BUFFER_SIZE
    /\ buffered.overall_buffer = LastN(buffered.appended, BUFFER_SIZE)

\* C31 witness: seven entries were appended; the first two have been evicted.
C31_Witness ==
    /\ buffered.appended = <<1, 2, 3, 1, 2, 3, 1>>
    /\ buffered.overall_buffer = <<3, 1, 2, 3, 1>>

\* The rows after update(task, completed=100, visible=False) on row i.
Retired(rows, i) == Updated(rows, i, TRUE, <<100, 1>>, TRUE, FALSE)

\* C32: update(task, completed=100, visible=False) applied twice to an allocated row
\* gives the same table, the row itself and every other row, as applied once; and the
\* step of handle_response that makes this call changes the table to exactly that and
\* leaves the overall counter as it is.
C32_RetireIdempotent ==
    /\ [](\A i \in Links: job_progress[i].alloc =>
              Retired(Retired(job_progress, i), i) = Retired(job_progress, i))
    /\ [][\A i \in Links: (wpc[i] = "stream" /\ wpc'[i] = "advance") =>
              /\ job_progress' = Retired(job_progress, i)
              /\ overall_progress' = overall_progress]_vars

\* C32 witness: the row of task 1 has been retired by its worker while the row of
\* task 2 is on display below 100.
C32_Witness ==
    /\ wpc[1] = "advance"
    /\ RowDone(job_progress[1])
    /\ job_progress[2].visible
    /\ ~IsHundred(job_progress[2].completed)

\* C33: no two tasks of one run_in_parallel call hold the same destination file open
\* for writing at the same time, whatever the file names of the links.
C33_NoSharedOpenFile ==
    \A i \in ItemsOpen, j \in ItemsOpen:
        i # j => parallel.names[i] # parallel.names[j]

\* The step is one of task i's own.
StepOf(i) ==
    \/ parallel'.pos[i] # parallel.pos[i]
    \/ parallel'.offset[i] # parallel.offset[i]

\* C34: a task whose response is not ok leaves the destination directory as it is: no
\* file is created, truncated or written by any of its steps.
C34_NotOkWritesNothing ==
    [][\A i \in Items:
         (parallel.status[i] \notin {"none", "200"} /\ StepOf(i)) =>
             parallel'.dir = parallel.dir]_vars

\* The error statuses of HTTPStatus other than 404 and 410 that are looked at.
HTTPErrors == {"403", "429", "500", "503"}

\* C35: an attempt of fetch_page that gets an error status other than 404 and 410 is
\* handled as one that raises in the request: it uses up one attempt, and it is
\* followed by one more delay and another attempt, or, on the last attempt, by the
\* exit of the process with no delay; the parsed page is returned only for a status
\* that passes raise_for_status.
C35_ErrorStatusLikeException ==
    [][(pc = "fetch" /\ attempts' # attempts) =>
         LET r == Last(attempts') IN
         /\ Len(attempts') = Len(attempts) + 1
         /\ r \in HTTPErrors \cup {"exc"} =>
               IF Len(attempts) = retries - 1
               THEN pc' = "exit" /\ delays' = delays
               ELSE /\ pc' = "fetch"
                    /\ Len(delays') = Len(delays) + 1
                    /\ Front(delays') = delays
         /\ pc' = "soup" => r \notin HTTPErrors \cup Gone \cup {"exc"}]_vars

\* C35 witness: the four attempts got 403, 429, 503 and 500; three delays were slept
\* and the process exited.
C35_Witness ==
    /\ attempts = <<"403", "429", "503", "500">>
    /\ Len(delays) = 3
    /\ pc = "exit"

\* The run has ended before main returned: by an exit or by an exception.
RunStopped == run.at = "stopped" \/ batch.at = "stopped"

\* C36: URLs.txt is emptied only after process_urls has gone through every URL of
\* the list it was given: while it has not, and when the run stops at the arguments,
\* at a validation, at a fetch or at a download, URLs.txt holds what it held when the
\* run began.  The first step of every run empties the dump file, and nothing is read
\* before it.
C36_ListClearedOnlyAtEnd ==
    /\ [](/\ run.DEFAULT_FILE # run.before =>
                run.at = "returned" /\ batch.at = "done"
          /\ RunStopped => run.DEFAULT_FILE = run.before
          /\ run.at = "start" => run.urls = <<>> /\ batch = NoBatch)
    /\ [][run.at = "start" => run'.DUMP_FILE = <<>>]_vars

\* C36 witness: a run without --profile in which the first album was gone through
\* and the validation of the second URL exited, with URLs.txt still holding the
\* list; the dump file of the earlier run was emptied.
C36_Witness ==
    /\ ~run.profile
    /\ batch.at = "stopped"
    /\ batch.cause = "validate"
    /\ batch.g = 2
    /\ run.DEFAULT_FILE = UrlList
    /\ run.DUMP_FILE = <<>>

\* The number of times x occurs in the sequence s.
Count(s, x) == Cardinality({k \in 1..Len(s): s[k] = x})

\* The sequence s of numbers is in strictly rising order.
Rising(s) == \A k \in 1..(Len(s) - 1): s[k] < s[k + 1]

\* Once the directory is listed, existing_files is what the directory held when the
\* album began; a link whose file name is among these is never requested or written;
\* the requests are made in the order of the list, each link's at most once; and the
\* links the loop has passed without skipping have been requested.
SnapshotSkips ==
    /\ album.at # "listing" => album.existing_files = album.before
    /\ \A k \in SeqLinks: album.names[k] \in album.before =>
          Count(album.requests, k) = 0 /\ Count(album.writes, k) = 0
    /\ Rising(album.requests)
    /\ \A k \in SeqLinks: (k < album.l /\ album.names[k] \notin album.before) =>
          Count(album.requests, k) = 1

\* C37: a link whose file name was in the directory when the album began is skipped
\* with no request and no write, and every other link is requested exactly once, in
\* the order of the list; existing_files is the listing made before the first
\* download and stays as it is while the album's files are written.
C37_SkipExistingRequestOthersOnce ==
    /\ SnapshotSkips
    /\ album.at \in {"complete", "stopped"} =>
          \A k \in SeqLinks: album.names[k] \notin album.before =>
              Count(album.requests, k) = 1

====
